---- MODULE Spec2Model ----
(***************************************************************************)
(* The sanity_checks tool of postgres-mcp-server (main.py): one scan runs  *)
(* four data-quality checks, each a count query followed by a sample       *)
(* query, over one psycopg2 connection, and returns a list of issues       *)
(* {check, n, sample}.  The database (public.users, public.subscriptions,  *)
(* public.sessions) is shared with other sessions.                         *)
(*                                                                         *)
(* Encoding: every column holds integers >= 1 or strings; SQL NULL in a    *)
(* date column is encoded as NULL == 0.  A Python optional integer is the  *)
(* record None or Some(n).                                                 *)
(***************************************************************************)
EXTENDS Integers, Sequences, FiniteSets

\* ---------------------------------------------------------------- bounds
MaxUser == 2
MaxDup == 3
MaxSubs == 2
MaxDate == 1
MaxSessions == 1
MaxScans == 2
MaxWrites == 1
MaxLive == 1
MaxRows == 1
MaxArg == 1
WideArg == 300

\* ------------------------------------------------------- program constants
DefaultLimit == 20
MaxLimit == 200

NULL == 0
None == [some |-> FALSE, val |-> 0]
Some(n) == [some |-> TRUE, val |-> n]

Min(a, b) == IF a <= b THEN a ELSE b

Max(a, b) == IF a >= b THEN a ELSE b

UserIds == 1..MaxUser
SubIds == 1..MaxSubs
SessionIds == 1..MaxSessions
DateVals == {NULL} \cup (1..MaxDate)
Statuses == {"active", "expired"}
Plans == {"basic"}
Invocations == 1..MaxScans
ConnIds == 1..MaxScans

\* ------------------------------------------------------------ the database
SubKinds == [user_id : UserIds, plan : Plans, status : Statuses,
             start_date : DateVals, end_date : DateVals]

SubRow(id, kind) ==
    [subscription_id |-> id, user_id |-> kind.user_id, plan |-> kind.plan,
     status |-> kind.status, start_date |-> kind.start_date,
     end_date |-> kind.end_date]

\* The contents of public.subscriptions with n rows, and of public.sessions.
SubTables(n) == {{SubRow(id, f[id]) : id \in 1..n} : f \in [1..n -> SubKinds]}

SessionTables(n) ==
    {{[session_id |-> id, user_id |-> f[id]] : id \in 1..n} : f \in [1..n -> UserIds]}

\* The contents of public.users: the number of rows of each user_id.
UserTables == [UserIds -> 0..MaxDup]

EmptyDatabase ==
    [users |-> [u \in UserIds |-> 0], subs |-> {}, sessions |-> {}]

\* One id with three rows in users, an active subscription with an end date
\* whose user has no session, an expired one without end date.
ScenarioDatabase ==
    [users |-> [u \in UserIds |-> IF u = 1 THEN 3 ELSE IF u = 2 THEN 1 ELSE 0],
     subs |-> {[subscription_id |-> 1, user_id |-> 1, plan |-> "basic",
                status |-> "active", start_date |-> 1, end_date |-> 1],
               [subscription_id |-> 2, user_id |-> 2, plan |-> "basic",
                status |-> "expired", start_date |-> 1, end_date |-> NULL]},
     sessions |-> {[session_id |-> 1, user_id |-> 2]}]

\* --------------------------------------------------------------- arguments
DefaultArgs(n) ==
    [active_status |-> "active", expired_status |-> "expired", sample_n |-> n]

SampleArgs == {None, Some(MaxLimit + 1)} \cup {Some(n) : n \in 1..MaxArg}

WideSampleArgs == {None} \cup {Some(n) : n \in (0 - WideArg)..WideArg}

ScanArgs == {DefaultArgs(n) : n \in SampleArgs}

\* ------------------------------------------------------------ sample limit
\* Variant: a limit below 1 is passed through.
CapLimitNoFloor(sample_n) ==
    IF ~sample_n.some THEN DefaultLimit ELSE Min(sample_n.val, MaxLimit)

CapLimit(sample_n) ==
    IF (~sample_n.some) \/ sample_n.val < 1
    THEN DefaultLimit
    ELSE Min(sample_n.val, MaxLimit)

\* ------------------------------------------------------------- the catalog
Catalog ==
    <<"duplicate_user_ids", "active_with_end_date",
      "expired_no_end_date", "active_no_sessions">>

NumChecks == Len(Catalog)

\* Rows of public.users grouped by user_id: <<user_id, COUNT(*)>>.
UserGroups(d) == {<<u, d.users[u]>> : u \in {v \in UserIds : d.users[v] > 0}}

DupRows(d) == {g \in UserGroups(d) : g[2] > 1}

SubTuple(r) ==
    <<r.user_id, r.subscription_id, r.plan, r.status, r.start_date, r.end_date>>

ActiveEndRows(d, a) ==
    {SubTuple(r) : r \in {s \in d.subs : s.status = a.active_status
                                        /\ s.end_date # NULL}}

ExpiredNoEndRows(d, a) ==
    {SubTuple(r) : r \in {s \in d.subs : s.status = a.expired_status
                                        /\ s.end_date = NULL}}

\* Variant: an inner join, which drops the subscriptions without a session.
InnerJoin(d, a) ==
    UNION {{<<s.subscription_id, s.user_id, se.session_id>>
            : se \in {x \in d.sessions : x.user_id = s.user_id}}
           : s \in {x \in d.subs : x.status = a.active_status}}

\* subscriptions s LEFT JOIN sessions se ON se.user_id = s.user_id
\* WHERE s.status = active_status: <<s.subscription_id, s.user_id, se.session_id>>
LeftJoin(d, a) ==
    UNION {IF \E se \in d.sessions : se.user_id = s.user_id
           THEN {<<s.subscription_id, s.user_id, se.session_id>>
                 : se \in {x \in d.sessions : x.user_id = s.user_id}}
           ELSE {<<s.subscription_id, s.user_id, NULL>>}
           : s \in {x \in d.subs : x.status = a.active_status}}

\* GROUP BY s.user_id HAVING COUNT(se.session_id) = 0: <<user_id>>
NoSessionRows(d, a) ==
    {<<u>> : u \in {j[2] : j \in {x \in LeftJoin(d, a) :
        Cardinality({y \in LeftJoin(d, a) : y[2] = x[2] /\ y[3] # NULL}) = 0}}}

Violations(c, d, a) ==
    CASE c = 1 -> DupRows(d)
      [] c = 2 -> ActiveEndRows(d, a)
      [] c = 3 -> ExpiredNoEndRows(d, a)
      [] c = 4 -> NoSessionRows(d, a)

\* SELECT COUNT(*) of the check's violating rows.
CountResult(c, d, a) == Cardinality(Violations(c, d, a))

\* x DESC NULLS LAST
DescNullsLast(x, y) == (x # NULL /\ y = NULL) \/ (x # NULL /\ y # NULL /\ x > y)

\* Variant: ORDER BY n_rows DESC alone, without the user_id tie-break.
BeforeNoTieBreak(c, r, s) ==
    CASE c = 1 -> r[2] > s[2]
      [] c = 2 -> DescNullsLast(r[6], s[6])
      [] c = 3 -> DescNullsLast(r[5], s[5])
      [] c = 4 -> r[1] < s[1]

\* r sorts strictly before s under the ORDER BY of check c's sample query.
Before(c, r, s) ==
    CASE c = 1 -> r[2] > s[2] \/ (r[2] = s[2] /\ r[1] < s[1])
      [] c = 2 -> DescNullsLast(r[6], s[6])
      [] c = 3 -> DescNullsLast(r[5], s[5])
      [] c = 4 -> r[1] < s[1]

\* Every order in which the database may return the rows S under the ORDER BY
\* of check c: rows the sort key does not separate come in any order.
RECURSIVE OrderBy(_, _)
OrderBy(c, S) ==
    IF S = {} THEN {<<>>}
    ELSE UNION {{<<r>> \o t : t \in OrderBy(c, S \ {r})}
                : r \in {x \in S : \A y \in S : ~Before(c, y, x)}}

\* LIMIT n
Limit(rows, n) == SubSeq(rows, 1, Min(n, Len(rows)))

\* The row sequences the sample query of check c may return.
SampleResults(c, d, a, lim) ==
    {Limit(rows, lim) : rows \in OrderBy(c, Violations(c, d, a))}

\* The dict built from one fetched row of check c.
ShapeRow(c, r) ==
    CASE c = 1 -> [user_id |-> r[1], n_rows |-> r[2]]
      [] c = 4 -> [user_id |-> r[1]]
      [] OTHER -> [user_id |-> r[1], subscription_id |-> r[2], plan |-> r[3],
                   status |-> r[4], start_date |-> r[5], end_date |-> r[6]]

Shape(c, rows) == [j \in 1..Len(rows) |-> ShapeRow(c, rows[j])]

\* Variant: the expired_no_end_date block keeps the check id of the block it
\* was copied from.
MakeIssueCopied(c, n, rows) ==
    [check |-> Catalog[IF c = 3 THEN 2 ELSE c], n |-> n, sample |-> Shape(c, rows)]

MakeIssue(c, n, rows) == [check |-> Catalog[c], n |-> n, sample |-> Shape(c, rows)]

\* ------------------------------------------------------------------- state
VARIABLES db, sql, loop, pc, args, limit, chk, cnt, issues, conn,
          conns, cur, result, trace

vars == <<db, sql, loop, pc, args, limit, chk, cnt, issues, conn,
          conns, cur, result, trace>>

\* One step of a call, with the rows it fetched.
Event(e, c, cn, lim, out) ==
    [ev |-> e, check |-> c, conn |-> cn, limit |-> lim, out |-> out]

Running(i) == pc[i] \in {"connect", "cursor", "count", "sample", "exit"}

\* The event loop runs no task.
LoopFree == loop = 0

Finished(i) == pc[i] \in {"done", "failed"}

Pending == [kind |-> "pending", value |-> <<>>]

InitLocals ==
    /\ sql = <<>>
    /\ loop = 0
    /\ pc = [i \in Invocations |-> "idle"]
    /\ args = [i \in Invocations |-> DefaultArgs(None)]
    /\ limit = [i \in Invocations |-> 0]
    /\ chk = [i \in Invocations |-> 0]
    /\ cnt = [i \in Invocations |-> 0]
    /\ issues = [i \in Invocations |-> <<>>]
    /\ conn = [i \in Invocations |-> 0]
    /\ conns = [c \in ConnIds |-> "none"]
    /\ cur = [i \in Invocations |-> "none"]
    /\ result = [i \in Invocations |-> Pending]
    /\ trace = [i \in Invocations |-> <<>>]

Init == db \in {EmptyDatabase, ScenarioDatabase} /\ InitLocals

InitLive == db = EmptyDatabase /\ InitLocals

InitStatic ==
    /\ \E u \in UserTables, n \in 0..MaxSubs, m \in 0..MaxSessions :
          \E s \in SubTables(n), t \in SessionTables(m) :
              db = [users |-> u, subs |-> s, sessions |-> t]
    /\ InitLocals

\* ----------------------------------------------------------------- actions
\* The first statements of the coroutine (lines 87-91): the limit is clamped.
Enter(i, a) ==
    /\ args' = [args EXCEPT ![i] = a]
    /\ limit' = [limit EXCEPT ![i] = CapLimit(a.sample_n)]
    /\ issues' = [issues EXCEPT ![i] = <<>>]
    /\ pc' = [pc EXCEPT ![i] = "connect"]
    /\ trace' = [trace EXCEPT ![i] = <<Event("clamp", 0, 0, CapLimit(a.sample_n), <<>>)>>]

\* The tool is called while the event loop is free: the coroutine starts, and
\* having no await it holds the loop from its first statement to its return
\* or raise.
Call(i, a) ==
    /\ pc[i] = "idle"
    /\ LoopFree
    /\ \A j \in 1..(i - 1) : pc[j] \notin {"idle", "queued"}
    /\ loop' = i
    /\ Enter(i, a)
    /\ UNCHANGED <<db, sql, chk, cnt, conn, conns, cur, result>>

\* The tool is called while another call holds the event loop: the request
\* waits as a task of the loop.
Queue(i, a) ==
    /\ pc[i] = "idle"
    /\ ~LoopFree
    /\ \A j \in 1..(i - 1) : pc[j] # "idle"
    /\ pc' = [pc EXCEPT ![i] = "queued"]
    /\ args' = [args EXCEPT ![i] = a]
    /\ UNCHANGED <<db, sql, loop, limit, chk, cnt, issues, conn, conns, cur,
                   result, trace>>

\* The loop is free again and runs the waiting task that came first.
Dequeue(i) ==
    /\ pc[i] = "queued"
    /\ LoopFree
    /\ \A j \in 1..(i - 1) : pc[j] # "queued"
    /\ loop' = i
    /\ Enter(i, args[i])
    /\ UNCHANGED <<db, sql, chk, cnt, conn, conns, cur, result>>

\* Variant: one module-level connection serves every call.
SharedConnection(cs) == 1

\* psycopg2.connect returns a connection no one else holds.
NewConnection(cs) == 1 + Cardinality({c \in ConnIds : cs[c] # "none"})

Connect(i) ==
    /\ pc[i] = "connect"
    /\ loop = i
    /\ conn' = [conn EXCEPT ![i] = NewConnection(conns)]
    /\ conns' = [conns EXCEPT ![NewConnection(conns)] = "ready"]
    /\ pc' = [pc EXCEPT ![i] = "cursor"]
    /\ trace' = [trace EXCEPT ![i] =
                   Append(@, Event("connect", 0, NewConnection(conns), limit[i], <<>>))]
    /\ UNCHANGED <<db, sql, loop, args, limit, chk, cnt, issues, cur, result>>

\* Variant: the exception is swallowed and the issues built so far returned.
ReturnPartial(i) == [result EXCEPT ![i] = [kind |-> "value", value |-> issues[i]]]

\* The exception leaves the coroutine: the caller gets no value.
Raise(i) == [result EXCEPT ![i] = [kind |-> "exception", value |-> <<>>]]

ConnectFails(i) ==
    /\ pc[i] = "connect"
    /\ loop = i
    /\ pc' = [pc EXCEPT ![i] = "failed"]
    /\ result' = Raise(i)
    /\ trace' = [trace EXCEPT ![i] = Append(@, Event("error", 0, 0, limit[i], <<>>))]
    /\ loop' = 0
    /\ UNCHANGED <<db, sql, args, limit, chk, cnt, issues, conn, conns, cur>>

OpenCursor(i) ==
    /\ pc[i] = "cursor"
    /\ loop = i
    /\ cur' = [cur EXCEPT ![i] = "open"]
    /\ chk' = [chk EXCEPT ![i] = 1]
    /\ pc' = [pc EXCEPT ![i] = "count"]
    /\ UNCHANGED <<db, sql, loop, args, limit, cnt, issues, conn, conns, result, trace>>

\* The count query of the current check; the first execute opens a transaction.
CountQuery(i) ==
    /\ pc[i] = "count"
    /\ loop = i
    /\ cnt' = [cnt EXCEPT ![i] = CountResult(chk[i], db, args[i])]
    /\ conns' = [conns EXCEPT ![conn[i]] = "begin"]
    /\ pc' = [pc EXCEPT ![i] = "sample"]
    /\ trace' = [trace EXCEPT ![i] =
                   Append(@, Event("count", chk[i], conn[i], limit[i],
                                   <<CountResult(chk[i], db, args[i])>>))]
    /\ UNCHANGED <<db, sql, loop, args, limit, chk, issues, conn, cur, result>>

\* The sample query of the current check, then the issue is appended.
SampleQuery(i) ==
    /\ pc[i] = "sample"
    /\ loop = i
    /\ \E rows \in SampleResults(chk[i], db, args[i], limit[i]) :
          /\ issues' = [issues EXCEPT ![i] = Append(@, MakeIssue(chk[i], cnt[i], rows))]
          /\ trace' = [trace EXCEPT ![i] =
                         @ \o <<Event("sample", chk[i], conn[i], limit[i], rows),
                                Event("append", chk[i], conn[i], limit[i], <<>>)>>]
    /\ chk' = [chk EXCEPT ![i] = IF @ < NumChecks THEN @ + 1 ELSE @]
    /\ pc' = [pc EXCEPT ![i] = IF chk[i] < NumChecks THEN "count" ELSE "exit"]
    /\ UNCHANGED <<db, sql, loop, args, limit, cnt, conn, conns, cur, result>>

\* Leaving "with conn" commits (ok) or rolls back the transaction; either way
\* the connection is idle afterwards, and it is not closed.
ExitConnection(ok) == "ready"

\* Variant: a failing check is skipped and the scan goes on with the next.
QueryFailsContinue(i) ==
    /\ pc[i] \in {"count", "sample"}
    /\ loop = i
    /\ chk' = [chk EXCEPT ![i] = IF @ < NumChecks THEN @ + 1 ELSE @]
    /\ pc' = [pc EXCEPT ![i] = IF chk[i] < NumChecks THEN "count" ELSE "exit"]
    /\ trace' = [trace EXCEPT ![i] = Append(@, Event("error", chk[i], conn[i], limit[i], <<>>))]
    /\ UNCHANGED <<db, sql, loop, args, limit, cnt, issues, conn, conns, cur, result>>

\* A query raises: both with blocks are left and the exception propagates.
QueryFails(i) ==
    /\ pc[i] \in {"count", "sample"}
    /\ loop = i
    /\ cur' = [cur EXCEPT ![i] = "closed"]
    /\ conns' = [conns EXCEPT ![conn[i]] = ExitConnection(FALSE)]
    /\ pc' = [pc EXCEPT ![i] = "failed"]
    /\ result' = Raise(i)
    /\ trace' = [trace EXCEPT ![i] = Append(@, Event("error", chk[i], conn[i], limit[i], <<>>))]
    /\ loop' = 0
    /\ UNCHANGED <<db, sql, args, limit, chk, cnt, issues, conn>>

\* conn.cursor() raises: "with conn" is left with the exception, no cursor
\* was opened.
CursorFails(i) ==
    /\ pc[i] = "cursor"
    /\ loop = i
    /\ conns' = [conns EXCEPT ![conn[i]] = ExitConnection(FALSE)]
    /\ pc' = [pc EXCEPT ![i] = "failed"]
    /\ result' = Raise(i)
    /\ trace' = [trace EXCEPT ![i] = Append(@, Event("error", 0, conn[i], limit[i], <<>>))]
    /\ loop' = 0
    /\ UNCHANGED <<db, sql, args, limit, chk, cnt, issues, conn, cur>>

\* The cursor is closed, then the commit on leaving "with conn" raises: the
\* exception propagates instead of the issue list.
CommitFails(i) ==
    /\ pc[i] = "exit"
    /\ loop = i
    /\ cur' = [cur EXCEPT ![i] = "closed"]
    /\ conns' = [conns EXCEPT ![conn[i]] = ExitConnection(FALSE)]
    /\ pc' = [pc EXCEPT ![i] = "failed"]
    /\ result' = Raise(i)
    /\ trace' = [trace EXCEPT ![i] = Append(@, Event("error", 0, conn[i], limit[i], <<>>))]
    /\ loop' = 0
    /\ UNCHANGED <<db, sql, args, limit, chk, cnt, issues, conn>>

\* The connection as the return leaves it: the frame's locals held the last
\* references to the connection object, so it is finalised, which closes it,
\* before the caller resumes.
ReleaseLocals(status) == "closed"

\* Both with blocks are left normally and the issue list is returned.
Return(i) ==
    /\ pc[i] = "exit"
    /\ loop = i
    /\ cur' = [cur EXCEPT ![i] = "closed"]
    /\ conns' = [conns EXCEPT ![conn[i]] = ReleaseLocals(ExitConnection(TRUE))]
    /\ pc' = [pc EXCEPT ![i] = "done"]
    /\ result' = [result EXCEPT ![i] = [kind |-> "value", value |-> issues[i]]]
    /\ trace' = [trace EXCEPT ![i] = Append(@, Event("return", 0, conn[i], limit[i], <<>>))]
    /\ loop' = 0
    /\ UNCHANGED <<db, sql, args, limit, chk, cnt, issues, conn>>

\* The exception of a failed call holds the frame, and with it the connection,
\* which stays open until the exception is dropped and the object finalised.
Finalize(i) ==
    /\ pc[i] = "failed"
    /\ conn[i] # 0
    /\ conns[conn[i]] # "closed"
    /\ conns' = [conns EXCEPT ![conn[i]] = "closed"]
    /\ UNCHANGED <<db, sql, loop, pc, args, limit, chk, cnt, issues, conn, cur,
                   result, trace>>

\* execute_sql(sql), called on another server process that uses the same
\* database.  The statement is whatever text the caller passes.
SubTablesWithin(n) ==
    UNION {{{SubRow(id, f[id]) : id \in I} : f \in [I -> SubKinds]}
           : I \in {J \in SUBSET SubIds : Cardinality(J) <= n}}

SessionTablesWithin(n) ==
    UNION {{{[session_id |-> id, user_id |-> f[id]] : id \in I} : f \in [I -> UserIds]}
           : I \in {J \in SUBSET SessionIds : Cardinality(J) <= n}}

\* The number of rows of public.users with a user_id in U.
RECURSIVE UserRows(_, _)
UserRows(u, U) ==
    IF U = {} THEN 0
    ELSE LET v == CHOOSE w \in U : TRUE IN u[v] + UserRows(u, U \ {v})

UserTablesWithin(n) == {u \in [UserIds -> 0..n] : UserRows(u, UserIds) <= n}

\* The number of rows in the three tables of d.
Size(d) == UserRows(d.users, UserIds) + Cardinality(d.subs) + Cardinality(d.sessions)

\* The contents a statement can leave in the tables of d: rows inserted,
\* updated and deleted at will, the tables not growing past MaxLive rows in
\* all or, if they hold more, past their present size.
Within(d) ==
    LET n == Max(MaxLive, Size(d))
    IN UNION {UNION {{[users |-> u, subs |-> s, sessions |-> t]
                      : s \in SubTablesWithin(n - UserRows(u, UserIds) - Cardinality(t))}
                     : t \in SessionTablesWithin(n - UserRows(u, UserIds))}
              : u \in UserTablesWithin(n)}

Outcome(d, n) == [db |-> d, rows |-> n]

\* What a statement that returns rows (a SELECT, or INSERT, UPDATE, DELETE
\* with RETURNING, on one row or many, with or without data-modifying WITH
\* clauses) commits: the database it leaves and the number of rows it returns.
Statements(d) == {Outcome(e, n) : e \in Within(d), n \in 0..MaxRows}

\* execute_sql on another process of the server.  A statement that returns
\* rows is committed when "with conn" is left, and the return finalises the
\* connection.  A statement without a result set (INSERT, UPDATE or DELETE
\* without RETURNING) leaves cur.description None: building cols raises
\* TypeError; that, or an error of the statement, makes "with conn" roll back
\* what the text has not committed itself ("INSERT ...; COMMIT" stays
\* committed), and the exception holds the connection open.  When
\* psycopg2.connect raises there is no connection.
ExecuteSql ==
    /\ Len(sql) < MaxWrites
    /\ \/ \E o \in Statements(db) :
             /\ db' = o.db
             /\ sql' = Append(sql, [result |-> "value", rows |-> o.rows,
                                    conn |-> ReleaseLocals(ExitConnection(TRUE))])
       \/ \E e \in Within(db) :
             /\ db' = e
             /\ sql' = Append(sql, [result |-> "exception", rows |-> 0,
                                    conn |-> ExitConnection(FALSE)])
       \/ /\ db' = db
          /\ sql' = Append(sql, [result |-> "exception", rows |-> 0,
                                 conn |-> "none"])
    /\ UNCHANGED <<loop, pc, args, limit, chk, cnt, issues, conn, conns,
                   cur, result, trace>>

\* The exception of a failed execute_sql is dropped and its connection finalised.
FinalizeSql(k) ==
    /\ k \in 1..Len(sql)
    /\ sql[k].conn \notin {"none", "closed"}
    /\ sql' = [sql EXCEPT ![k].conn = "closed"]
    /\ UNCHANGED <<db, loop, pc, args, limit, chk, cnt, issues, conn,
                   conns, cur, result, trace>>

\* ---------------------------------------------------------- specifications
\* The server, whose event loop runs the calls of sanity_checks, and the
\* other processes that run execute_sql on the same database.
Next ==
    \/ \E i \in Invocations, a \in ScanArgs : Call(i, a)
    \/ \E i \in Invocations, a \in ScanArgs : Queue(i, a)
    \/ \E i \in Invocations : Dequeue(i)
    \/ \E i \in Invocations : Connect(i)
    \/ \E i \in Invocations : ConnectFails(i)
    \/ \E i \in Invocations : OpenCursor(i)
    \/ \E i \in Invocations : CursorFails(i)
    \/ \E i \in Invocations : CountQuery(i)
    \/ \E i \in Invocations : SampleQuery(i)
    \/ \E i \in Invocations : QueryFails(i)
    \/ \E i \in Invocations : Return(i)
    \/ \E i \in Invocations : CommitFails(i)
    \/ \E i \in Invocations : Finalize(i)
    \/ ExecuteSql
    \/ \E k \in 1..MaxWrites : FinalizeSql(k)

Spec == InitLive /\ [][Next]_vars

\* A database no other session writes to, and calls that meet no error.
NextStatic ==
    \/ \E i \in Invocations, a \in ScanArgs : Call(i, a)
    \/ \E i \in Invocations : Connect(i)
    \/ \E i \in Invocations : OpenCursor(i)
    \/ \E i \in Invocations : CountQuery(i)
    \/ \E i \in Invocations : SampleQuery(i)
    \/ \E i \in Invocations : Return(i)

SpecStatic == InitStatic /\ [][NextStatic]_vars

\* One call with any sample_n.
NextLimit ==
    \/ \E n \in WideSampleArgs : Call(1, DefaultArgs(n))
    \/ Connect(1)
    \/ OpenCursor(1)
    \/ CountQuery(1)
    \/ SampleQuery(1)
    \/ Return(1)

SpecLimit == Init /\ [][NextLimit]_vars

\* ------------------------------------------------------------------ claims
Errored(i) == \E j \in 1..Len(trace[i]) : trace[i][j].ev = "error"

Returned(i) == result[i].kind = "value"

\* C1: for every sample_n (any integer or null) the limit of the scan is 20
\* when sample_n is null or below 1 and min(sample_n, 200) otherwise; it lies
\* in 1..200, equals an input in 1..200 unchanged, is the limit bound into
\* every sample query, and the call does not fail because of it.
C1_LimitClamped ==
    \A i \in Invocations : pc[i] # "idle" =>
        LET n == args[i].sample_n
            L == limit[i]
        IN /\ ((~n.some) \/ n.val < 1) => L = 20
           /\ (n.some /\ n.val >= 1 /\ n.val <= 200) => L = n.val
           /\ (n.some /\ n.val > 200) => L = 200
           /\ L \in 1..200
           /\ \A j \in 1..Len(trace[i]) :
                 trace[i][j].ev = "sample" => trace[i][j].limit = L
           /\ pc[i] # "failed"

C1_Witness ==
    \E i \in Invocations :
        /\ pc[i] = "done"
        /\ args[i].sample_n.some /\ args[i].sample_n.val < 0
        /\ \E j \in 1..Len(trace[i]) :
              trace[i][j].ev = "sample" /\ trace[i][j].limit = 20

\* C2: every call that returns a value returns exactly four issues whose
\* check ids are, in this order, duplicate_user_ids, active_with_end_date,
\* expired_no_end_date, active_no_sessions.
C2_FourIssuesInCatalogOrder ==
    \A i \in Invocations : Returned(i) =>
        /\ Len(result[i].value) = 4
        /\ result[i].value[1].check = "duplicate_user_ids"
        /\ result[i].value[2].check = "active_with_end_date"
        /\ result[i].value[3].check = "expired_no_end_date"
        /\ result[i].value[4].check = "active_no_sessions"

C2_Witness ==
    \E i \in Invocations :
        /\ Returned(i)
        /\ \E c \in 1..4 : result[i].value[c].n > 0
        /\ \E j \in Invocations : pc[j] = "failed"

\* C3: a call in which the connection or a query failed ends with an error
\* and hands the caller no issue list; a value the caller receives has four
\* issues, each with its check id, its count and its sample, and comes from a
\* call in which nothing failed.
C3_ErrorOrCompleteResult ==
    \A i \in Invocations :
        /\ Errored(i) => (pc[i] = "failed" /\ result[i].kind = "exception"
                          /\ result[i].value = <<>>)
        /\ pc[i] = "failed" => result[i].kind = "exception"
        /\ Returned(i) =>
              /\ ~Errored(i)
              /\ Len(result[i].value) = 4
              /\ \A c \in 1..4 :
                    DOMAIN result[i].value[c] = {"check", "n", "sample"}

C3_Witness ==
    \E i \in Invocations :
        /\ pc[i] = "failed"
        /\ Len(issues[i]) = 1
        /\ cnt[i] = 1
        /\ trace[i][Len(trace[i])].ev = "error"
        /\ trace[i][Len(trace[i]) - 1].ev = "count"
        /\ result[i].kind = "exception"

\* C4: for every issue returned, len(sample) <= min(n, clamped limit), also
\* when another session changes the tables between the count query and the
\* sample query of a check.
C4_SampleWithinCount ==
    \A i \in Invocations : Returned(i) =>
        \A c \in 1..Len(result[i].value) :
            Len(result[i].value[c].sample) <= Min(result[i].value[c].n, limit[i])

\* The entities that violate each rule, stated on the tables.
DupIds(d) == {u \in UserIds : d.users[u] > 1}

ActiveWithEnd(d, st) == {s \in d.subs : s.status = st /\ s.end_date # NULL}

ExpiredNoEnd(d, st) == {s \in d.subs : s.status = st /\ s.end_date = NULL}

ActiveNoSession(d, st) ==
    {u \in UserIds : /\ \E s \in d.subs : s.user_id = u /\ s.status = st
                     /\ \A se \in d.sessions : se.user_id # u}

\* C5: on a database that does not change, each issue's n is the number of
\* entities violating its rule, every sample row is one of them, and
\* len(sample) = min(n, clamped limit).
C5_CountAndSampleAgree ==
    \A i \in Invocations : Returned(i) =>
        LET v == result[i].value
            a == args[i]
        IN /\ v[1].n = Cardinality(DupIds(db))
           /\ \A j \in 1..Len(v[1].sample) : v[1].sample[j].user_id \in DupIds(db)
           /\ v[2].n = Cardinality(ActiveWithEnd(db, a.active_status))
           /\ \A j \in 1..Len(v[2].sample) :
                 v[2].sample[j] \in ActiveWithEnd(db, a.active_status)
           /\ v[3].n = Cardinality(ExpiredNoEnd(db, a.expired_status))
           /\ \A j \in 1..Len(v[3].sample) :
                 v[3].sample[j] \in ExpiredNoEnd(db, a.expired_status)
           /\ v[4].n = Cardinality(ActiveNoSession(db, a.active_status))
           /\ \A j \in 1..Len(v[4].sample) :
                 v[4].sample[j].user_id \in ActiveNoSession(db, a.active_status)
           /\ \A c \in 1..4 : Len(v[c].sample) = Min(v[c].n, limit[i])

\* Scenario C with a cut sample: one user with an active subscription has a
\* session, the other has none, and a check has more violations than the limit.
C5_Witness ==
    \E i \in Invocations :
        /\ Returned(i)
        /\ limit[i] = 1
        /\ result[i].value[4].n = 1
        /\ \E se \in db.sessions : \E s \in db.subs :
              s.user_id = se.user_id /\ s.status = args[i].active_status
        /\ \E c \in 1..4 : result[i].value[c].n = 2
                           /\ Len(result[i].value[c].sample) = 1

\* C6: two scans with the same arguments on an unchanged database return
\* identical results, also when violating rows tie on the ordering key and
\* more rows violate than the limit admits.
C6_RepeatedScansIdentical ==
    \A i, j \in Invocations :
        (Returned(i) /\ Returned(j) /\ args[i] = args[j])
            => result[i].value = result[j].value

\* C7: every connection and cursor a call acquired is released by the time
\* the call has returned or raised.
C7_ReleasedWhenFinished ==
    \A i \in Invocations : (Finished(i) /\ conn[i] # 0) =>
        (cur[i] # "open" /\ conns[conn[i]] = "closed")

QueryEvents(i) ==
    {j \in 1..Len(trace[i]) : trace[i][j].ev \in {"count", "sample"}}

\* C8: when calls are made while another call is in progress, each call uses
\* a connection it alone acquired, on which no other call issues a query; the
\* call in progress holds the event loop, so no two calls are in progress at
\* once; and each issue of a call carries the count and the rows its own
\* queries fetched.
C8_ConnectionOwnedByOneScan ==
    /\ \A i, j \in Invocations : (i # j /\ conn[i] # 0) => conn[i] # conn[j]
    /\ \A i \in Invocations : \A j \in QueryEvents(i) :
          /\ trace[i][j].conn = conn[i]
          /\ \A h \in Invocations \ {i} : \A g \in QueryEvents(h) :
                trace[h][g].conn # trace[i][j].conn
    /\ Cardinality({i \in Invocations : Running(i)}) <= 1
    /\ \A i \in Invocations : Running(i) => loop = i
    /\ \A i \in Invocations :
          LET q == QueryEvents(i)
              t == trace[i]
          IN \A c \in 1..Len(issues[i]) :
                /\ \E g \in q : /\ t[g].ev = "count" /\ t[g].check = c
                                 /\ issues[i][c].n = t[g].out[1]
                /\ \E h \in q :
                      /\ t[h].ev = "sample" /\ t[h].check = c
                      /\ Len(issues[i][c].sample) = Len(t[h].out)
                      /\ \A r \in 1..Len(t[h].out) :
                            issues[i][c].sample[r].user_id = t[h].out[r][1]

C8_Witness ==
    /\ pc[1] = "sample" /\ chk[1] = 2
    /\ Len(issues[1]) = 1
    /\ loop = 1 /\ conn[1] = 1
    /\ pc[2] = "queued" /\ conn[2] = 0

\* C9: the duplicate_user_ids issue has n = the number of distinct user_id
\* values with more than one row, and its sample is the first min(n, L) of
\* them with their row counts, by n_rows descending, then user_id ascending.
C9_DuplicateUserIds ==
    \A i \in Invocations : Returned(i) =>
        LET n == result[i].value[1].n
            sm == result[i].value[1].sample
        IN /\ n = Cardinality(DupIds(db))
           /\ Len(sm) = Min(n, limit[i])
           /\ \A j \in 1..Len(sm) :
                 /\ DOMAIN sm[j] = {"user_id", "n_rows"}
                 /\ sm[j].user_id \in DupIds(db)
                 /\ sm[j].n_rows = db.users[sm[j].user_id]
           /\ \A j, h \in 1..Len(sm) : j < h =>
                 \/ sm[j].n_rows > sm[h].n_rows
                 \/ (sm[j].n_rows = sm[h].n_rows /\ sm[j].user_id < sm[h].user_id)
           /\ \A u \in DupIds(db) :
                 (\A j \in 1..Len(sm) : sm[j].user_id # u) =>
                    \A j \in 1..Len(sm) :
                       \/ sm[j].n_rows > db.users[u]
                       \/ (sm[j].n_rows = db.users[u] /\ sm[j].user_id < u)

\* Two ids with the same row count, and a limit that admits one of them.
C9_Witness ==
    \E i \in Invocations :
        /\ Returned(i)
        /\ limit[i] = 1
        /\ db.users[1] = 2 /\ db.users[2] = 2
        /\ result[i].value[1].n = 2
        /\ result[i].value[1].sample = <<[user_id |-> 1, n_rows |-> 2]>>

CanonEvents ==
    <<"clamp", "connect", "count", "sample", "append", "count", "sample",
      "append", "count", "sample", "append", "count", "sample", "append",
      "return">>

CanonChecks == <<0, 0, 1, 1, 1, 2, 2, 2, 3, 3, 3, 4, 4, 4, 0>>

\* C10: the steps of a scan are: the limit clamped once, then one connection
\* acquired, then for each check in catalog order its count query, its sample
\* query and the append of its issue, all queries on that connection and with
\* that limit; a failure is the last step of its scan.
C10_StepsInOrder ==
    \A i \in Invocations :
        LET t == trace[i]
            failed == Len(t) > 0 /\ t[Len(t)].ev = "error"
            m == IF failed THEN Len(t) - 1 ELSE Len(t)
        IN /\ m <= Len(CanonEvents)
           /\ \A j \in 1..m :
                 /\ t[j].ev = CanonEvents[j]
                 /\ t[j].check = CanonChecks[j]
                 /\ t[j].limit = t[1].limit
                 /\ j >= 3 => t[j].conn = t[2].conn
           /\ failed => /\ m >= 1
                        /\ t[m].ev \in {"clamp", "connect", "count", "append"}
                        /\ pc[i] = "failed"
           /\ Len(issues[i]) = Cardinality({j \in 1..m : t[j].ev = "append"})
           /\ Cardinality({j \in 1..m : t[j].ev = "connect"}) <= 1
           /\ Cardinality({j \in 1..m : t[j].ev = "clamp"}) <= 1

C10_Witness ==
    \E i \in Invocations :
        /\ pc[i] = "failed"
        /\ Len(trace[i]) = 10
        /\ trace[i][9].ev = "count" /\ trace[i][9].check = 3
        /\ trace[i][10].ev = "error"
        /\ Len(issues[i]) = 2

====
